---------------------------- MODULE Spec2Model ----------------------------
(***************************************************************************)
(* A model of rsa.py: the base-26 codec (decode, encode), the extended     *)
(* Euclidean algorithm and modular inverse, square-and-multiply modular    *)
(* exponentiation, the Miller-Rabin test, get_prime, key_gen and rsa.      *)
(*                                                                         *)
(* Python values are modelled as follows.  Integers are TLA+ integers      *)
(* (Python integers do not overflow; the bounds keep every value inside    *)
(* TLC's 32-bit range).  A string is a sequence of code points.  A value  *)
(* whose Python type matters is a record [kind, val].  A call that may     *)
(* raise returns [exc, val], exc = "none" for a normal return.  Python's   *)
(* False, as get_prime returns it, is the integer 0 (False == 0, and       *)
(* "not 0" is true).                                                       *)
(***************************************************************************)
EXTENDS Integers, Sequences, FiniteSets, TLC

VARIABLES
    pc,       \* the control point of the call under way
    site,     \* the call site that entered get_prime or miller_rabin
    input,    \* the argument(s) of a call of a pure function
    mid,      \* the value in between, for a two-call round trip
    out,      \* the value the call returned
    n,        \* miller_rabin: the number under test (get_prime's n)
    t,        \* miller_rabin: the number of rounds
    k,        \* miller_rabin: the number of halvings of n - 1 so far
    n_sub,    \* miller_rabin: n - 1 with its factors of two taken out
    i,        \* miller_rabin: the round counter of "for i in range(t)"
    mr,       \* miller_rabin's return value
    p,        \* key_gen: p
    q,        \* key_gen: q
    keys,     \* key_gen's return value, or the exception it ended with
    message,  \* the integer handed to rsa for encryption
    cipher,   \* the result of rsa(n, b, message)
    plain     \* the result of rsa(p * q, a, cipher)

vars == <<pc, site, input, mid, out, n, t, k, n_sub, i, mr, p, q, keys,
          message, cipher, plain>>

---------------------------------------------------------------------------
(* Bounds of the model. *)

\* Longest string handed to encode.
MaxLen == 2
\* Largest integer handed to decode.
MaxNum == 60
\* Largest absolute value of an argument of extended_gcd and mod_inv.
MaxAbs == 7
\* Largest base, exponent and modulus handed to mod_exp_55 directly.
MaxBase == 6
MaxExp == 6
MaxMod == 7
\* Bit length of the draws of getrandbits that are enumerated in full (the
\* program draws 512 bits).
Bits == 4
\* Largest n and round count handed to miller_rabin directly.
MaxN == 100
MaxT == 3
\* Number of outcomes of one randint call enumerated from the low end of
\* its range (the top of the range is always included).
MaxSpan == 128
\* Cap on the halving loop's counter k.
MaxK == 8
\* Largest message handed to rsa for encryption.
MaxMsg == 230

(* Program constants. *)

\* decode(n, b=26), encode(message, b=26)
Base26 == 26
\* miller_rabin(n, t=10)
Rounds == 10
\* key_gen: b = 65537
key_gen_b == 65537

---------------------------------------------------------------------------
(* Python values and results. *)

PyStr(s) == [kind |-> "str", val |-> s]
PyInt(x) == [kind |-> "int", val |-> x]
PyList(s) == [kind |-> "list", val |-> s]
Ok(v) == [exc |-> "none", val |-> v]
Raise(e) == [exc |-> e, val |-> 0]

None == [kind |-> "none", val |-> 0]
\* The result of a call that has not been made yet.
Pending == [exc |-> "pending", val |-> 0]

Min(x, y) == IF x <= y THEN x ELSE y
Abs(x) == IF x < 0 THEN -x ELSE x

\* Python's x % m for m # 0: the result has the sign of m.
PyMod(x, m) == IF m > 0 THEN x % m ELSE -((-x) % (-m))

---------------------------------------------------------------------------
(* decode and encode *)

RECURSIVE decode_loop(_, _, _)
\* while n: chars.append(chr(int(n % b) + 97)); n //= b
decode_loop(num, base, chars) ==
    IF num = 0 THEN chars
    ELSE decode_loop(num \div base, base, Append(chars, (num % base) + 97))

\* chars[::-1]
Reverse(s) == [j \in 1..Len(s) |-> s[Len(s) + 1 - j]]

decode(num, base) ==
    IF num = 0 THEN PyList(<<0>>)
    ELSE PyStr(Reverse(decode_loop(num, base, <<>>)))

\* str.lower on one code point
lower(ch) == IF ch \in 65..90 THEN ch + 32 ELSE ch

RECURSIVE encode_loop(_, _, _, _, _)
\* for i in m_list: m_num += (i * (b ** m_len)); m_len -= 1
encode_loop(m_list, idx, m_len, m_num, base) ==
    IF idx > Len(m_list) THEN m_num
    ELSE encode_loop(m_list, idx + 1, m_len - 1,
                     m_num + m_list[idx] * (base ^ m_len), base)

encode(msg, base) ==
    IF msg.kind # "str" THEN Raise("AttributeError")   \* list has no .lower()
    ELSE LET m_list == [j \in 1..Len(msg.val) |-> lower(msg.val[j]) - 97]
         IN  Ok(encode_loop(m_list, 1, Len(m_list) - 1, 0, base))

---------------------------------------------------------------------------
(* extended_gcd and mod_inv *)

RECURSIVE extended_gcd_loop(_, _, _, _, _, _)
extended_gcd_loop(last_remainder, remainder, x, last_x, y, last_y) ==
    IF remainder = 0 THEN <<last_remainder, last_x, last_y>>
    ELSE LET quotient == last_remainder \div remainder
         IN  extended_gcd_loop(remainder, last_remainder % remainder,
                               last_x - quotient * x, x,
                               last_y - quotient * y, y)

extended_gcd_nosign(a0, b0) ==
    extended_gcd_loop(Abs(a0), Abs(b0), 0, 1, 1, 0)

extended_gcd(a0, b0) ==
    LET r == extended_gcd_loop(Abs(a0), Abs(b0), 0, 1, 1, 0)
    IN  <<r[1], r[2] * (IF a0 < 0 THEN -1 ELSE 1),
                r[3] * (IF b0 < 0 THEN -1 ELSE 1)>>

mod_inv_nocheck(a, m) ==
    LET e == extended_gcd(a, m)
    IN  IF m = 0 THEN Raise("ZeroDivisionError") ELSE Ok(PyMod(e[2], m))

mod_inv(a, m) ==
    LET e == extended_gcd(a, m)
    IN  IF e[1] # 1 THEN Raise("ValueError")
        ELSE IF m = 0 THEN Raise("ZeroDivisionError")
        ELSE Ok(PyMod(e[2], m))

---------------------------------------------------------------------------
(* mod_exp_55 and rsa *)

RECURSIVE mod_exp_loop(_, _)
\* while ex > 0: ...  on the loop's variables st = <<b, ex, res>>
mod_exp_loop(st, modulo) ==
    IF st[2] <= 0 THEN st[3]
    ELSE IF st[2] % 2 = 0                       \* not ex & 1
         THEN mod_exp_loop(<<PyMod(st[1] * st[1], modulo), st[2] \div 2, st[3]>>,
                           modulo)
         ELSE mod_exp_loop(<<st[1], st[2] - 1, PyMod(st[1] * st[3], modulo)>>,
                           modulo)

RECURSIVE mod_exp_loop_nosquare(_, _)
\* the loop with "b = (b * b) % modulo" left out
mod_exp_loop_nosquare(st, modulo) ==
    IF st[2] <= 0 THEN st[3]
    ELSE IF st[2] % 2 = 0
         THEN mod_exp_loop_nosquare(<<st[1], st[2] \div 2, st[3]>>, modulo)
         ELSE mod_exp_loop_nosquare(
                  <<st[1], st[2] - 1, PyMod(st[1] * st[3], modulo)>>, modulo)

mod_exp_55_nosquare(msg, exponent, modulo) ==
    IF exponent <= 0 THEN Ok(1)
    ELSE IF modulo = 0 THEN Raise("ZeroDivisionError")
    ELSE Ok(mod_exp_loop_nosquare(<<msg, exponent, 1>>, modulo))

mod_exp_55(msg, exponent, modulo) ==
    IF exponent <= 0 THEN Ok(1)
    ELSE IF modulo = 0 THEN Raise("ZeroDivisionError")
    ELSE Ok(mod_exp_loop(<<msg, exponent, 1>>, modulo))

rsa(modulus, e, msg) == mod_exp_55(msg, e, modulus)

---------------------------------------------------------------------------
(* Calls of the pure functions: the codec *)

Letters == 97..122

Strings == UNION {[1..len -> Letters] : len \in 0..MaxLen}

Idle == /\ site = "none" /\ n = 0 /\ t = 0 /\ k = 0 /\ n_sub = 0 /\ i = 0
        /\ mr = FALSE /\ p = 0 /\ q = 0 /\ keys = Pending
        /\ message = 0 /\ cipher = Pending /\ plain = Pending

IdleUnchanged == UNCHANGED <<site, n, t, k, n_sub, i, mr, p, q, keys,
                             message, cipher, plain>>

InitCodec ==
    /\ \/ pc = "encode_first" /\ input \in {PyStr(s) : s \in Strings}
       \/ pc = "decode_first" /\ input \in {PyInt(x) : x \in 0..MaxNum}
    /\ mid = None
    /\ out = None
    /\ Idle

\* m = encode(l), the first half of decode(encode(l))
EncodeFirst ==
    /\ pc = "encode_first"
    /\ mid' = encode(input, Base26)
    /\ pc' = "decode_second"
    /\ UNCHANGED <<input, out>>
    /\ IdleUnchanged

\* decode(m) for the m that encode returned
DecodeSecond ==
    /\ pc = "decode_second"
    /\ out' = decode(mid.val, Base26)
    /\ pc' = "done"
    /\ UNCHANGED <<input, mid>>
    /\ IdleUnchanged

\* s = decode(n), the first half of encode(decode(n))
DecodeFirst ==
    /\ pc = "decode_first"
    /\ mid' = decode(input.val, Base26)
    /\ pc' = "encode_second"
    /\ UNCHANGED <<input, out>>
    /\ IdleUnchanged

\* encode(s) for the s that decode returned
EncodeSecond ==
    /\ pc = "encode_second"
    /\ out' = encode(mid, Base26)
    /\ pc' = "done"
    /\ UNCHANGED <<input, mid>>
    /\ IdleUnchanged

NextCodec == EncodeFirst \/ DecodeSecond \/ DecodeFirst \/ EncodeSecond

SpecCodec == InitCodec /\ [][NextCodec]_vars


---------------------------------------------------------------------------
(* Reference definitions the claims are stated with. *)

Divides(d, x) == \E c \in 0..Abs(x) : Abs(x) = c * d

\* The greatest common divisor of |x| and |y|, with gcd(0, 0) = 0.
RefGcd(x, y) ==
    IF x = 0 /\ y = 0 THEN 0
    ELSE CHOOSE d \in 1..(Abs(x) + Abs(y)) :
            /\ Divides(d, x) /\ Divides(d, y)
            /\ \A c \in 1..(Abs(x) + Abs(y)) :
                  (Divides(c, x) /\ Divides(c, y)) => c <= d

RECURSIVE RefPow(_, _)
\* base to the power e, e >= 0, by repeated multiplication
RefPow(base, e) == IF e = 0 THEN 1 ELSE base * RefPow(base, e - 1)

RECURSIVE NoDivisorFrom(_, _)
\* x has no divisor d with from <= d and d * d <= x
NoDivisorFrom(x, from) ==
    IF from * from > x THEN TRUE
    ELSE IF x % from = 0 THEN FALSE
    ELSE NoDivisorFrom(x, from + 1)

\* x is prime, by trial division
IsPrime(x) == x > 1 /\ NoDivisorFrom(x, 2)

IsLowerString(v) ==
    /\ v.kind = "str"
    /\ \A j \in 1..Len(v.val) : v.val[j] \in Letters

---------------------------------------------------------------------------
(* The codec's claims, under SpecCodec *)

\* C2: for every nonempty string s of lowercase letters whose encoding is
\* nonzero, decode(encode(s)) == s.
C2_CodecRoundTrip ==
    (/\ pc = "done"
     /\ input.kind = "str"
     /\ Len(input.val) > 0
     /\ mid.exc = "none"
     /\ mid.val # 0)
    => (out.kind = "str" /\ out.val = input.val)

\* C10: for every integer n >= 0, decode(n) is a string of lowercase letters
\* and encode(decode(n)) == n, n = 0 included.
C10_ReverseRoundTrip ==
    (pc \in {"encode_second", "done"} /\ input.kind = "int")
    => /\ IsLowerString(mid)
       /\ pc = "done" => (out.exc = "none" /\ out.val = input.val)

---------------------------------------------------------------------------
(* Calls of the pure functions: the arithmetic *)

Signed(bound) == (-bound)..bound

InitArith ==
    /\ pc = "call"
    /\ input \in
         {[fn |-> "extended_gcd", args |-> <<x, y>>] :
              x \in Signed(MaxAbs), y \in Signed(MaxAbs)}
         \cup {[fn |-> "mod_inv", args |-> <<x, y>>] :
              x \in Signed(MaxAbs), y \in Signed(MaxAbs)}
         \cup {[fn |-> "mod_exp_55", args |-> <<x, y, z>>] :
              x \in Signed(MaxBase), y \in (-1)..MaxExp, z \in Signed(MaxMod)}
    /\ mid = None
    /\ out = None
    /\ Idle

CallExtendedGcd ==
    /\ pc = "call"
    /\ input.fn = "extended_gcd"
    /\ out' = extended_gcd(input.args[1], input.args[2])
    /\ pc' = "done"
    /\ UNCHANGED <<input, mid>>
    /\ IdleUnchanged

CallModInv ==
    /\ pc = "call"
    /\ input.fn = "mod_inv"
    /\ out' = mod_inv(input.args[1], input.args[2])
    /\ pc' = "done"
    /\ UNCHANGED <<input, mid>>
    /\ IdleUnchanged

CallModExp ==
    /\ pc = "call"
    /\ input.fn = "mod_exp_55"
    /\ out' = mod_exp_55(input.args[1], input.args[2], input.args[3])
    /\ pc' = "done"
    /\ UNCHANGED <<input, mid>>
    /\ IdleUnchanged

NextArith == CallExtendedGcd \/ CallModInv \/ CallModExp

SpecArith == InitArith /\ [][NextArith]_vars

Returned(fn) == pc = "done" /\ input.fn = fn

\* C8: extended_gcd(a, b) returns (g, x, y) with g = gcd(|a|, |b|) and
\* a*x + b*y = g, for all integers a and b, negative and zero included.
C8_ExtendedGcd ==
    Returned("extended_gcd")
    => LET a0 == input.args[1]
           b0 == input.args[2]
       IN  /\ out[1] = RefGcd(a0, b0)
           /\ a0 * out[2] + b0 * out[3] = out[1]

\* C8's case: a negative a and a zero-free pair with a gcd above 1.
C8_Witness ==
    /\ Returned("extended_gcd")
    /\ input.args[1] < 0
    /\ input.args[2] > 0
    /\ out[1] > 1
    /\ out[2] # 0

\* C3: for all integers a and all m >= 1, mod_inv(a, m) returns r with
\* r * a congruent to 1 modulo m when gcd(a, m) = 1, and ends with the
\* no-inverse error (ValueError), never a value, when gcd(a, m) # 1.
C3_ModInv ==
    (Returned("mod_inv") /\ input.args[2] >= 1)
    => LET a0 == input.args[1]
           m0 == input.args[2]
       IN  IF RefGcd(a0, m0) = 1
           THEN out.exc = "none" /\ (out.val * a0 - 1) % m0 = 0
           ELSE out.exc = "ValueError"

\* C3's case: an inverse of a negative a modulo m > 2.
C3_Witness ==
    /\ Returned("mod_inv")
    /\ input.args[1] < -1
    /\ input.args[2] > 2
    /\ out.exc = "none"
    /\ out.val > 1

\* C4: mod_exp_55(base, exponent, modulus) returns (base^exponent) mod
\* modulus for every base >= 0, exponent >= 0 and modulus > 0; the result
\* is 0 whenever the modulus is 1.
C4_ModExp ==
    (/\ Returned("mod_exp_55")
     /\ input.args[1] >= 0
     /\ input.args[2] >= 0
     /\ input.args[3] > 0)
    => /\ out.exc = "none"
       /\ out.val = RefPow(input.args[1], input.args[2]) % input.args[3]

---------------------------------------------------------------------------
(* miller_rabin and get_prime *)

\* (x * y) % m for 0 <= x, y < m < 2^20, with y split in two so that no
\* intermediate value leaves TLC's 32-bit integers (Python's do not
\* overflow).
MulMod(x, y, m) ==
    LET hi == y \div 1024
        lo == y % 1024
    IN  (((x * hi) % m) * 1024 + x * lo) % m

\* x^d % m for 0 <= d < 16 and 0 <= x < m
PowDigit(x, d, m) ==
    LET x2 == MulMod(x, x, m)
        x4 == MulMod(x2, x2, m)
        x8 == MulMod(x4, x4, m)
        f1 == IF d % 2 = 1 THEN x ELSE 1 % m
        f2 == IF (d \div 2) % 2 = 1 THEN MulMod(f1, x2, m) ELSE f1
        f4 == IF (d \div 4) % 2 = 1 THEN MulMod(f2, x4, m) ELSE f2
    IN  IF (d \div 8) % 2 = 1 THEN MulMod(f4, x8, m) ELSE f4

\* x^16 % m for 0 <= x < m
Pow16(x, m) ==
    LET x2 == MulMod(x, x, m)
        x4 == MulMod(x2, x2, m)
        x8 == MulMod(x4, x4, m)
    IN  MulMod(x8, x8, m)

RECURSIVE PowLoop(_, _)
\* st = <<x, e, acc>>: acc * x^e % m, four bits of e at a time, from the
\* low end
PowLoop(st, m) ==
    IF st[2] = 0 THEN st[3]
    ELSE PowLoop(<<Pow16(st[1], m), st[2] \div 16,
                   MulMod(st[3], PowDigit(st[1], st[2] % 16, m), m)>>, m)

\* Python's built-in pow(base, e, m) for e >= 0 and 0 < m < 2^20
PyPow(base, e, m) == PowLoop(<<base % m, e, 1 % m>>, m)

RECURSIVE check_loop(_, _, _, _)
\* for j in range(k_check - 1): if x == num - 1: return True; x = pow(x, 2, num)
\* return x == num - 1
check_loop(x, j, k_check, num) ==
    IF j >= k_check - 1 THEN x = num - 1
    ELSE IF x = num - 1 THEN TRUE
    ELSE check_loop(PyPow(x, 2, num), j + 1, k_check, num)

check_short(a_check, k_check, num_sub, num) ==
    LET x == PyPow(a_check, num_sub, num)
    IN  IF x = 1 THEN TRUE ELSE check_loop(x, 0, k_check - 1, num)

check(a_check, k_check, num_sub, num) ==
    LET x == PyPow(a_check, num_sub, num)
    IN  IF x = 1 THEN TRUE ELSE check_loop(x, 0, k_check, num)

\* The values randint(lo, hi) can return that the model explores: the
\* first MaxSpan of the range and its top; the whole range when it has at
\* most MaxSpan values.  Empty when lo > hi (randint raises ValueError).
randint(lo, hi) ==
    IF lo > hi THEN {} ELSE (lo..Min(hi, lo + MaxSpan - 1)) \cup {hi}

\* The values getrandbits(512) can return that the model explores: every
\* value of Bits bits, and 2 * 65537, the smallest draw whose candidate n
\* has n - 1 divisible by key_gen's b.
getrandbits == (0..(2 ^ Bits - 1)) \cup {2 * key_gen_b}

PrimeUnchanged == UNCHANGED <<input, mid, p, q, keys, message, cipher, plain>>

InitPrime ==
    /\ \/ /\ pc = "miller_rabin"
          /\ site = "miller_rabin"
          /\ n \in 0..MaxN
          /\ t \in 0..MaxT
       \/ /\ pc = "get_prime"
          /\ site = "get_prime"
          /\ n = 0
          /\ t = 0
    /\ k = 0 /\ n_sub = 0 /\ i = 0 /\ mr = FALSE
    /\ input = None /\ mid = None /\ out = None
    /\ p = 0 /\ q = 0 /\ keys = Pending
    /\ message = 0 /\ cipher = Pending /\ plain = Pending

\* get_prime: n = getrandbits(512); if not n & 1: n += 1; miller_rabin(n)
GetPrimeDraw ==
    /\ pc = "get_prime"
    /\ \E r \in getrandbits : n' = IF r % 2 = 0 THEN r + 1 ELSE r
    /\ t' = Rounds
    /\ pc' = "miller_rabin"
    /\ UNCHANGED <<site, k, n_sub, i, mr, out>>
    /\ PrimeUnchanged

\* miller_rabin: k = 0; n_sub = n - 1
MillerRabinEnter ==
    /\ pc = "miller_rabin"
    /\ k' = 0
    /\ n_sub' = n - 1
    /\ pc' = "mr_halve"
    /\ UNCHANGED <<site, n, t, i, mr, out>>
    /\ PrimeUnchanged

\* one iteration of: while n_sub % 2 == 0: n_sub >>= 1; k += 1
MillerRabinHalve ==
    /\ pc = "mr_halve"
    /\ n_sub % 2 = 0
    /\ k < MaxK
    /\ n_sub' = n_sub \div 2
    /\ k' = k + 1
    /\ UNCHANGED <<pc, site, n, t, i, mr, out>>
    /\ PrimeUnchanged

\* the halving loop ends
MillerRabinHalved ==
    /\ pc = "mr_halve"
    /\ n_sub % 2 # 0
    /\ i' = 0
    /\ pc' = "mr_round"
    /\ UNCHANGED <<site, n, t, k, n_sub, mr, out>>
    /\ PrimeUnchanged

\* one iteration of: for i in range(t): a = randint(2, n - 1);
\* if not check(a, k, n_sub, n): return False
MillerRabinRound ==
    /\ pc = "mr_round"
    /\ i < t
    /\ IF randint(2, n - 1) = {}
       THEN /\ pc' = "mr_raised"
            /\ out' = Raise("ValueError")
            /\ UNCHANGED <<i, mr>>
       ELSE \E a \in randint(2, n - 1) :
               IF check(a, k, n_sub, n)
               THEN /\ i' = i + 1
                    /\ UNCHANGED <<pc, mr, out>>
               ELSE /\ mr' = FALSE
                    /\ pc' = "mr_return"
                    /\ UNCHANGED <<i, out>>
    /\ UNCHANGED <<site, n, t, k, n_sub>>
    /\ PrimeUnchanged

\* every round passed: return True
MillerRabinPass ==
    /\ pc = "mr_round"
    /\ i >= t
    /\ mr' = TRUE
    /\ pc' = "mr_return"
    /\ UNCHANGED <<site, n, t, k, n_sub, i, out>>
    /\ PrimeUnchanged

\* miller_rabin, called on its own, returns to its caller
MillerRabinReturn ==
    /\ pc = "mr_return"
    /\ site = "miller_rabin"
    /\ out' = mr
    /\ pc' = "done"
    /\ UNCHANGED <<site, n, t, k, n_sub, i, mr>>
    /\ PrimeUnchanged

\* get_prime's value: if not miller_rabin(n): return False; return n
get_prime_value == IF mr THEN n ELSE 0

\* get_prime, called on its own, returns to its caller
GetPrimeReturn ==
    /\ pc = "mr_return"
    /\ site = "get_prime"
    /\ out' = get_prime_value
    /\ pc' = "done"
    /\ UNCHANGED <<site, n, t, k, n_sub, i, mr>>
    /\ PrimeUnchanged

NextPrime ==
    \/ GetPrimeDraw
    \/ MillerRabinEnter
    \/ MillerRabinHalve
    \/ MillerRabinHalved
    \/ MillerRabinRound
    \/ MillerRabinPass
    \/ MillerRabinReturn
    \/ GetPrimeReturn

SpecPrime == InitPrime /\ [][NextPrime]_vars

\* C6: miller_rabin(n, t) returns True for every odd prime n > 2, every
\* round count t >= 0 and every sequence of witnesses drawn from [2, n-1].
C6_PrimesPass ==
    (/\ pc \in {"mr_return", "mr_raised"}
     /\ n > 2
     /\ n % 2 = 1
     /\ IsPrime(n))
    => (pc = "mr_return" /\ mr = TRUE)

\* C6's case: a prime with several halvings of n - 1 passed every round of
\* a direct call.
C6_Witness ==
    /\ pc = "mr_return"
    /\ site = "miller_rabin"
    /\ IsPrime(n)
    /\ k >= 3
    /\ t = MaxT
    /\ i = t
    /\ mr = TRUE

\* C9: every call of get_prime terminates; it never has miller_rabin's
\* halving loop on n - 1 in a state that the loop body leaves as it is (an
\* even n_sub that halves to itself), from which the loop runs forever.
C9_GetPrimeTerminates ==
    ~(/\ site = "get_prime"
      /\ pc = "mr_halve"
      /\ n_sub % 2 = 0
      /\ n_sub \div 2 = n_sub)

---------------------------------------------------------------------------
(* key_gen, and rsa as main calls it to encrypt and to decrypt *)

MrUnchanged == UNCHANGED <<n, t, k, n_sub, i, mr>>

InitKey ==
    /\ pc = "key_gen_199"
    /\ site = "key_gen"
    /\ n = 0 /\ t = 0 /\ k = 0 /\ n_sub = 0 /\ i = 0 /\ mr = FALSE
    /\ input = None /\ mid = None /\ out = None
    /\ p = 0 /\ q = 0 /\ keys = Pending
    /\ message = 0 /\ cipher = Pending /\ plain = Pending

\* p = get_prime() and q = get_prime(): the calls
KeyGenFirstCall ==
    /\ pc \in {"key_gen_199", "key_gen_200"}
    /\ site' = pc
    /\ pc' = "get_prime"
    /\ UNCHANGED <<input, mid, out, p, q, keys, message, cipher, plain>>
    /\ MrUnchanged

\* while not p: p = get_prime()
KeyGenWhileP ==
    /\ pc = "key_gen_201"
    /\ IF p = 0
       THEN site' = "key_gen_202" /\ pc' = "get_prime"
       ELSE site' = site /\ pc' = "key_gen_203"
    /\ UNCHANGED <<input, mid, out, p, q, keys, message, cipher, plain>>
    /\ MrUnchanged

\* while not q: q = get_prime()
KeyGenWhileQ ==
    /\ pc = "key_gen_203"
    /\ IF q = 0
       THEN site' = "key_gen_204" /\ pc' = "get_prime"
       ELSE site' = site /\ pc' = "key_gen_205"
    /\ UNCHANGED <<input, mid, out, p, q, keys, message, cipher, plain>>
    /\ MrUnchanged

\* get_prime returns into key_gen: the assignment to p or q
KeyGenAssign ==
    /\ pc = "mr_return"
    /\ site \in {"key_gen_199", "key_gen_200", "key_gen_202", "key_gen_204"}
    /\ p' = IF site \in {"key_gen_199", "key_gen_202"}
            THEN get_prime_value ELSE p
    /\ q' = IF site \in {"key_gen_200", "key_gen_204"}
            THEN get_prime_value ELSE q
    /\ pc' = CASE site = "key_gen_199" -> "key_gen_200"
               [] site = "key_gen_200" -> "key_gen_201"
               [] site = "key_gen_202" -> "key_gen_201"
               [] site = "key_gen_204" -> "key_gen_203"
    /\ UNCHANGED <<site, input, mid, out, keys, message, cipher, plain>>
    /\ MrUnchanged

\* The model computes p * q only when one of p, q has at most Bits bits.
Representable(x, y) == x < 2 ^ Bits \/ y < 2 ^ Bits

\* key_gen from "n = p * q" to its return, or to the exception of mod_inv
key_gen_result(pp, qq) ==
    LET nn == pp * qq
        public_key == <<nn, key_gen_b>>
        phi == (pp - 1) * (qq - 1)
        a == mod_inv(key_gen_b, phi)
    IN  IF a.exc # "none" THEN Raise(a.exc)
        ELSE Ok([public_key |-> public_key, private_key |-> <<pp, qq, a.val>>])

KeyGenFinish ==
    /\ pc = "key_gen_205"
    /\ Representable(p, q)
    /\ keys' = key_gen_result(p, q)
    /\ pc' = IF keys'.exc = "none" THEN "key_gen_returned" ELSE "key_gen_raised"
    /\ UNCHANGED <<site, input, mid, out, p, q, message, cipher, plain>>
    /\ MrUnchanged

\* main, choice 2: rsa(n, b, encode(l)) with the public key; every integer
\* m >= 0 is encode(l) for some line l
Encrypt ==
    /\ pc = "key_gen_returned"
    /\ \E m \in 0..MaxMsg :
          /\ message' = m
          /\ cipher' = rsa(keys.val.public_key[1], keys.val.public_key[2], m)
    /\ pc' = "encrypted"
    /\ UNCHANGED <<site, input, mid, out, p, q, keys, plain>>
    /\ MrUnchanged

\* main, choice 3: decode(rsa(p * q, a, int(line))) with the private key
Decrypt ==
    /\ pc = "encrypted"
    /\ cipher.exc = "none"
    /\ LET private_key == keys.val.private_key
       IN  plain' = rsa(private_key[1] * private_key[2], private_key[3],
                        cipher.val)
    /\ out' = decode(plain'.val, Base26)
    /\ pc' = "decrypted"
    /\ UNCHANGED <<site, input, mid, p, q, keys, message, cipher>>
    /\ MrUnchanged

NextKey ==
    \/ KeyGenFirstCall
    \/ GetPrimeDraw
    \/ MillerRabinEnter
    \/ MillerRabinHalve
    \/ MillerRabinHalved
    \/ MillerRabinRound
    \/ MillerRabinPass
    \/ KeyGenAssign
    \/ KeyGenWhileP
    \/ KeyGenWhileQ
    \/ KeyGenFinish
    \/ Encrypt
    \/ Decrypt

SpecKey == InitKey /\ [][NextKey]_vars

\* The key pair is valid as C1 has it: p and q prime, n = p * q and
\* e * d congruent to 1 modulo (p - 1) * (q - 1).
ValidKeyPair ==
    LET public_key == keys.val.public_key
        private_key == keys.val.private_key
        pp == private_key[1]
        qq == private_key[2]
    IN  /\ IsPrime(pp)
        /\ IsPrime(qq)
        /\ public_key[1] = pp * qq
        /\ (public_key[2] * private_key[3] - 1) % ((pp - 1) * (qq - 1)) = 0

\* C1 as stated: for every valid key pair and every m with 0 <= m < n,
\* rsa(p * q, d, rsa(n, e, m)) == m.
C1_RoundTripAnyPrimes ==
    (/\ pc = "decrypted"
     /\ ValidKeyPair
     /\ message < keys.val.public_key[1])
    => (plain.exc = "none" /\ plain.val = message)

\* C1 amended: the same for every valid key pair whose primes p and q are
\* distinct.
C1_RoundTripDistinctPrimes ==
    (/\ pc = "decrypted"
     /\ ValidKeyPair
     /\ keys.val.private_key[1] # keys.val.private_key[2]
     /\ message < keys.val.public_key[1])
    => (plain.exc = "none" /\ plain.val = message)

\* C1's case: distinct primes, a message below n that encryption changes,
\* and decryption gives it back.
C1_Witness ==
    /\ pc = "decrypted"
    /\ ValidKeyPair
    /\ p # q
    /\ message > 1
    /\ message < keys.val.public_key[1]
    /\ cipher.val # message
    /\ plain.val = message

\* C5: encrypting a message m that is not in 0 <= m < n ends with a
\* message-too-large error; no ciphertext is returned for m >= n.
C5_MessageTooLarge ==
    (pc \in {"encrypted", "decrypted"} /\ message >= keys.val.public_key[1])
    => cipher.exc # "none"

\* C7: key_gen does not propagate the error of a failing mod_inv(e, phi)
\* to its caller.
C7_ModInvErrorNotPropagated ==
    ~(pc = "key_gen_raised" /\ keys.exc = "ValueError")

=============================================================================
